---- MODULE Spec2Model ----
(***************************************************************************)
(* The gesture pipeline of the rover scripts: the frame loop of            *)
(* gesturedrive.py and the frame loop of GestureInterface.run              *)
(* (interfaces/gesture_interface.py), with the smoothing window, the       *)
(* gesture map, the motor sink and the shutdown sequence.                  *)
(*                                                                         *)
(* One behaviour is one run of one of the two programs (prog).  The        *)
(* camera, the hand detector, the classifier, the motor sink and the       *)
(* keyboard are the environment: each step draws their answer from a       *)
(* small set.                                                              *)
(***************************************************************************)
EXTENDS Integers, Sequences, FiniteSets, TLC

(***************************************************************************)
(* Program constants.                                                      *)
(***************************************************************************)
gd_history_length == 5
gi_history_length == 2
gd_vote_threshold == 3
\* a threshold the window of GestureInterface never reaches
gi_vote_threshold_never == gi_history_length + 1

gi_vote_threshold == 2
\* the detector let to return two landmark sets
max_num_hands_two == 1 + 1

max_num_hands == 1

\* the number of distinct confidence values the classifier is let to report
NumConfLevels == 2

Progs == {"gesturedrive", "gesture_interface"}

\* gesture_names: the closed vocabulary of the classifier
gesture_names == {"x+", "x-", "y+", "y-", "n"}

\* confidences in percent, the values of np.max(predict_proba)
ConfLevels == {(100 * i) \div NumConfLevels : i \in 1..NumConfLevels}

\* the gesture map with the backward gesture driving forward
gd_gesture_map_backward_forward ==
    [g \in gesture_names |->
        CASE g = "x+" -> <<30, 30>>
          [] g = "x-" -> <<20, 20>>
          [] g = "y+" -> <<-10, 10>>
          [] g = "y-" -> <<10, -10>>
          [] g = "n"  -> <<-30, -30>>]

\* gesture_map of gesturedrive.gesture_to_motor_command
gd_gesture_map ==
    [g \in gesture_names |->
        CASE g = "x+" -> <<30, 30>>
          [] g = "x-" -> <<0, 0>>
          [] g = "y+" -> <<-10, 10>>
          [] g = "y-" -> <<10, -10>>
          [] g = "n"  -> <<-30, -30>>]

\* GestureInterface.GESTURE_MAP
GESTURE_MAP ==
    [g \in gesture_names |->
        CASE g = "x+" -> <<30, 30>>
          [] g = "x-" -> <<-20, -20>>
          [] g = "y+" -> <<5, 10>>
          [] g = "y-" -> <<10, 5>>
          [] g = "n"  -> <<0, 0>>]

\* dict.get with the forward command as its default
dict_get_forward(map, gesture) ==
    IF gesture \in DOMAIN map THEN map[gesture] ELSE <<30, 30>>

\* dict.get(gesture, (0, 0))
dict_get(map, gesture) ==
    IF gesture \in DOMAIN map THEN map[gesture] ELSE <<0, 0>>

gd_gesture_to_motor_command(gesture) == dict_get(gd_gesture_map, gesture)

gi_gesture_to_motor_command(gesture) == dict_get(GESTURE_MAP, gesture)

history_length(p) ==
    IF p = "gesturedrive" THEN gd_history_length ELSE gi_history_length

vote_threshold(p) ==
    IF p = "gesturedrive" THEN gd_vote_threshold ELSE gi_vote_threshold

\* how many raw labels raw_since keeps: the window, and at least three frames
trace_length(p) == IF history_length(p) >= 3 THEN history_length(p) ELSE 3

(***************************************************************************)
(* The smoothing window.                                                   *)
(***************************************************************************)
\* the window popped one label too early (>= for >)
append_and_pop_early(history, prediction, k) ==
    LET appended == Append(history, prediction)
    IN  IF Len(appended) >= k THEN Tail(appended) ELSE appended

\* prediction_history.append(prediction); pop(0) when longer than k
append_and_pop(history, prediction, k) ==
    LET appended == Append(history, prediction)
    IN  IF Len(appended) > k THEN Tail(appended) ELSE appended

\* Counter(history): the distinct labels in the order of their first occurrence
RECURSIVE counter_keys(_)
counter_keys(history) ==
    IF history = <<>> THEN <<>>
    ELSE LET init == SubSeq(history, 1, Len(history) - 1)
             last == history[Len(history)]
             keys == counter_keys(init)
         IN  IF \E i \in 1..Len(keys) : keys[i] = last
             THEN keys ELSE Append(keys, last)

\* Counter(history)[label]
counter_count(history, label) ==
    Cardinality({i \in 1..Len(history) : history[i] = label})

\* a maximum that lets a later label of equal count win (>= for >)
RECURSIVE last_max(_, _, _)
last_max(history, keys, best) ==
    IF keys = <<>> THEN best
    ELSE last_max(history, Tail(keys),
                  IF counter_count(history, Head(keys)) >= counter_count(history, best)
                  THEN Head(keys) ELSE best)

\* a scan that keeps the smaller count (< for >)
RECURSIVE first_min(_, _, _)
first_min(history, keys, best) ==
    IF keys = <<>> THEN best
    ELSE first_min(history, Tail(keys),
                   IF counter_count(history, Head(keys)) < counter_count(history, best)
                   THEN Head(keys) ELSE best)

\* max(items, key=count): the first item of the iteration with the largest count
RECURSIVE first_max(_, _, _)
first_max(history, keys, best) ==
    IF keys = <<>> THEN best
    ELSE first_max(history, Tail(keys),
                   IF counter_count(history, Head(keys)) > counter_count(history, best)
                   THEN Head(keys) ELSE best)

\* Counter(history).most_common(1)[0][0], history not empty
most_common(history) ==
    LET keys == counter_keys(history)
    IN  first_max(history, Tail(keys), Head(keys))

\* a vote that starts one label too early
smooth_early(history, prediction, threshold) ==
    IF Len(history) >= threshold - 1 THEN most_common(history) ELSE prediction

\* the majority vote once the window holds at least `threshold` labels
smooth(history, prediction, threshold) ==
    IF Len(history) >= threshold THEN most_common(history) ELSE prediction

(***************************************************************************)
(* The environment's answers.                                              *)
(***************************************************************************)
CAMERA_WIDTH == 640
CAMERA_HEIGHT == 480

\* what the classifier answers for one landmark set: a label with a
\* confidence, or an exception out of predict / predict_proba
Classified ==
    [fail : {FALSE}, label : gesture_names, conf : ConfLevels]
        \cup {[fail |-> TRUE, label |-> "n", conf |-> 0]}

\* pixel positions of landmark 9 around the two thresholds of the fallback
PixelOffsets == {-51, -50, 0, 50, 51}

\* one landmark set: its classification and the pixel position of landmark 9
HandLandmarks ==
    {[cls |-> c, cx |-> (CAMERA_WIDTH \div 2) + dx, cy |-> (CAMERA_HEIGHT \div 2) + dy] :
        c \in Classified, dx \in PixelOffsets, dy \in PixelOffsets}

\* results.multi_hand_landmarks of a frame whose hands are all classified by
\* the model: the pixel position is not read, one value stands for all
ModelHands ==
    {hl \in HandLandmarks : hl.cx = CAMERA_WIDTH \div 2 /\ hl.cy = CAMERA_HEIGHT \div 2}

\* results.multi_hand_landmarks of a frame handled by the fallback: the
\* classifier is not called, one classification stands for all
FallbackHands ==
    {hl \in HandLandmarks : hl.cls = [fail |-> TRUE, label |-> "n", conf |-> 0]}

SeqsUpTo(S, n) == UNION {[1..m -> S] : m \in 0..n}

Keys == {"q", "esc", "c", "other", "none"}

(***************************************************************************)
(* State.                                                                  *)
(***************************************************************************)
VARIABLES
    prog,                \* which script runs
    pc,                  \* the position of the script
    model,               \* "unset", "loaded" or "None" (GestureInterface fallback)
    cap,                 \* the camera: "unset", "open", "failed", "released"
    startup_errors,      \* the startup errors printed
    running,
    control_active,
    current_gesture,
    gesture_confidence,
    prediction_history,
    motor,               \* <<left_motor, right_motor>> of the iteration
    exc,                 \* the exception that left the frame loop, or "none"
    motor_sink,          \* the commands handed to the motor sink in this iteration
    sink_raised,         \* whether the send of this iteration raised
    ever_sent,           \* whether any command was ever handed to the motor sink
    final_stop,          \* the (0,0) of the shutdown: "none", "sent", "failed"
    frame_kind,          \* what the iteration met: hand, no hand, failures
    raw_since,           \* the raw labels of the hand frames since the last
                         \* no-hand frame, the last trace_length of them
    config,              \* RoverConfig: the motor speed limits
    hand_landmarks,      \* the landmark set handed to extract_landmarks
    features,            \* what extract_landmarks returned
    features_before,     \* what it returned before the landmarks were moved
    twin,                \* the same run with other confidences: the loop state
                         \* and the commands of the iteration (sink)
    detected,            \* results.multi_hand_landmarks of the iteration
    subsystem_error,     \* the optional subsystem whose failure the step just
                         \* taken caught: "sensors", "led", or "none"; "unwatched"
                         \* in the runs that do not follow the subsystems
    retry,               \* a call of a function wrapped by retry_on_failure
    recovery             \* an ErrorRecoveryManager

vars == <<prog, pc, model, cap, startup_errors, running, control_active,
          current_gesture, gesture_confidence, prediction_history, motor, exc,
          motor_sink, sink_raised, ever_sent, final_stop, frame_kind, raw_since,
          config, hand_landmarks, features, features_before, twin, detected,
          subsystem_error, retry, recovery>>

\* error_handling.py: what the gesture scripts never touch
library_state == <<retry, recovery>>

\* subsystem_error after a step in which the subsystem named failed and the
\* failure was caught ("none": no failure in the step)
caught(subsystem) ==
    subsystem_error' = IF subsystem_error = "unwatched" THEN subsystem_error
                       ELSE subsystem

library_idle ==
    /\ retry = "unused"
    /\ recovery = "unused"

extract_state == <<hand_landmarks, features, features_before>>

\* the state of the gesture scripts, which error_handling.py never touches
script_state == <<prog, pc, model, cap, startup_errors, running, control_active,
                  current_gesture, gesture_confidence, prediction_history,
                  motor, exc, motor_sink, sink_raised, ever_sent, final_stop,
                  frame_kind, raw_since, config, hand_landmarks, features,
                  features_before, twin, detected, subsystem_error>>

\* RoverConfig.max_motor_speed, RoverConfig.min_motor_speed: the defaults
max_motor_speed == 50
min_motor_speed == -50

\* the limits of a configuration file that passes RoverConfig.validate
NarrowMaxSpeed == 20

\* RoverConfig(): the motor speed limits of the dataclass
RoverConfig ==
    [min_motor_speed |-> min_motor_speed, max_motor_speed |-> max_motor_speed]

\* the speed limits a run can be configured with: the defaults of RoverConfig,
\* or a file with narrower limits
Configs ==
    {RoverConfig,
     [min_motor_speed |-> -NarrowMaxSpeed, max_motor_speed |-> NarrowMaxSpeed]}

\* RoverConfig.validate, the checks on the motor speeds
validate(cfg) ==
    /\ ~(cfg.max_motor_speed <= cfg.min_motor_speed)
    /\ 0 <= cfg.max_motor_speed /\ cfg.max_motor_speed <= 100

\* nothing has been handed to extract_landmarks
extract_idle ==
    /\ hand_landmarks = <<>>
    /\ features = <<>>
    /\ features_before = <<>>

\* the frame loop has not started: the state both scripts start from
loop_idle ==
    /\ model = "unset"
    /\ cap = "unset"
    /\ startup_errors = {}
    /\ running = TRUE
    /\ control_active = FALSE
    /\ gesture_confidence = 0
    /\ prediction_history = <<>>
    /\ exc = "none"
    /\ motor_sink = <<>>
    /\ sink_raised = FALSE
    /\ ever_sent = FALSE
    /\ final_stop = "none"
    /\ frame_kind = "none"
    /\ raw_since = <<>>
    /\ detected = <<>>
    /\ twin = [active |-> FALSE, gesture |-> "none", conf |-> 0,
               hist |-> <<>>, motor |-> <<0, 0>>, exc |-> "none", sink |-> <<>>]

loop_state == <<control_active, current_gesture, gesture_confidence,
                prediction_history, motor>>

\* gesturedrive.py reads no configuration: the default limits stand for it;
\* GestureInterface is handed a RoverConfig
Init ==
    /\ prog \in Progs
    /\ pc = "load_model"
    /\ current_gesture = "none"
    /\ motor = <<0, 0>>
    /\ loop_idle
    /\ library_idle
    /\ subsystem_error = "unwatched"
    /\ config \in IF prog = "gesture_interface" THEN {c \in Configs : validate(c)}
                  ELSE {RoverConfig}
    /\ extract_idle

(***************************************************************************)
(* Startup.                                                                *)
(***************************************************************************)
\* a load that goes on to the connection whatever the outcome
gd_load_model_goes_on ==
    /\ prog = "gesturedrive"
    /\ pc = "load_model"
    /\ \E loaded \in BOOLEAN :
         IF loaded
         THEN /\ model' = "loaded"
              /\ UNCHANGED startup_errors
         ELSE /\ startup_errors' = startup_errors \cup {"model"}
              /\ UNCHANGED model
    /\ pc' = "connect"
    /\ caught("none")
    /\ UNCHANGED <<config, library_state, detected, extract_state, twin, prog, cap, running, loop_state, exc, motor_sink, sink_raised,
                   ever_sent, final_stop, frame_kind, raw_since>>

\* gesturedrive.py: a model that cannot be loaded ends the script
gd_load_model ==
    /\ prog = "gesturedrive"
    /\ pc = "load_model"
    /\ \E loaded \in BOOLEAN :
         IF loaded
         THEN /\ model' = "loaded"
              /\ pc' = "connect"
              /\ UNCHANGED startup_errors
         ELSE /\ startup_errors' = startup_errors \cup {"model"}
              /\ pc' = "exited"
              /\ UNCHANGED model
    /\ caught("none")
    /\ UNCHANGED <<config, library_state, detected, extract_state, twin, prog, cap, running, loop_state, exc, motor_sink, sink_raised,
                   ever_sent, final_stop, frame_kind, raw_since>>

\* GestureInterface.load_model: a model that cannot be loaded leaves model = None
load_model ==
    /\ prog = "gesture_interface"
    /\ pc = "load_model"
    /\ \E loaded \in BOOLEAN :
         IF loaded
         THEN /\ model' = "loaded"
              /\ UNCHANGED startup_errors
         ELSE /\ model' = "None"
              /\ startup_errors' = startup_errors \cup {"model"}
    /\ pc' = "init_camera"
    /\ caught("none")
    /\ UNCHANGED <<config, library_state, detected, extract_state, twin, prog, cap, running, loop_state, exc, motor_sink, sink_raised,
                   ever_sent, final_stop, frame_kind, raw_since>>

\* gesturedrive.py: the connection loop; a timeout asks for the port again
gd_connect ==
    /\ prog = "gesturedrive"
    /\ pc = "connect"
    /\ \E outcome \in {"connected", "timeout", "error"} :
         CASE outcome = "connected" ->
                /\ pc' = "init_camera"
                /\ UNCHANGED startup_errors
           [] outcome = "timeout" ->
                UNCHANGED <<pc, startup_errors>>
           [] outcome = "error" ->
                /\ pc' = "exited"
                /\ startup_errors' = startup_errors \cup {"rover"}
    /\ caught("none")
    /\ UNCHANGED <<config, library_state, detected, extract_state, twin, prog, model, cap, running, loop_state, exc, motor_sink,
                   sink_raised, ever_sent, final_stop, frame_kind, raw_since>>

\* cv2.VideoCapture(0); a camera that is not opened ends the script
init_camera ==
    /\ pc = "init_camera"
    /\ \E opened \in BOOLEAN :
         IF opened
         THEN /\ cap' = "open"
              /\ pc' = "loop"
              /\ UNCHANGED startup_errors
         ELSE /\ cap' = "failed"
              /\ pc' = "exited"
              /\ startup_errors' = startup_errors \cup {"camera"}
    /\ caught("none")
    /\ UNCHANGED <<config, library_state, detected, extract_state, twin, prog, model, running, loop_state, exc, motor_sink, sink_raised,
                   ever_sent, final_stop, frame_kind, raw_since>>

(***************************************************************************)
(* One iteration of the frame loop, up to the motor command.               *)
(* A loop state st is the record of the variables the branches assign:     *)
(* active (control_active), gesture (current_gesture), conf                *)
(* (gesture_confidence), hist (prediction_history), motor                  *)
(* (left_motor, right_motor) and exc (the exception raised, or "none").    *)
(***************************************************************************)
loop_record ==
    [active |-> control_active, gesture |-> current_gesture,
     conf |-> gesture_confidence, hist |-> prediction_history,
     motor |-> motor, exc |-> "none"]

\* the body with the command gated on the confidence of the prediction
gd_hand_body_confident(st, hl) ==
    IF hl.cls.fail
    THEN [st EXCEPT !.exc = "ClassifierError"]
    ELSE LET history == append_and_pop(st.hist, hl.cls.label, gd_history_length)
             prediction == smooth(history, hl.cls.label, gd_vote_threshold)
         IN  [st EXCEPT !.hist = history,
                        !.gesture = prediction,
                        !.conf = hl.cls.conf,
                        !.motor = IF hl.cls.conf >= 70
                                  THEN gd_gesture_to_motor_command(prediction)
                                  ELSE @]

\* gesturedrive.py, the body of `for hand_landmarks in results.multi_hand_landmarks`
gd_hand_body(st, hl) ==
    IF hl.cls.fail
    THEN [st EXCEPT !.exc = "ClassifierError"]
    ELSE LET history == append_and_pop(st.hist, hl.cls.label, gd_history_length)
             prediction == smooth(history, hl.cls.label, gd_vote_threshold)
         IN  [st EXCEPT !.hist = history,
                        !.gesture = prediction,
                        !.conf = hl.cls.conf,
                        !.motor = gd_gesture_to_motor_command(prediction)]

\* gesturedrive.py, the for loop: an exception leaves it at once
RECURSIVE gd_for_hands(_, _)
gd_for_hands(st, hands) ==
    IF hands = <<>> \/ st.exc # "none" THEN st
    ELSE gd_for_hands(gd_hand_body(st, Head(hands)), Tail(hands))

\* gesturedrive.py, the branch `if results.multi_hand_landmarks:`
gd_hand_branch(st, hands) ==
    gd_for_hands([st EXCEPT !.active = TRUE], hands)

\* the else branch without prediction_history.clear()
gd_no_hand_branch_keeps_history(st) ==
    [st EXCEPT !.active = FALSE,
               !.gesture = "no hand",
               !.conf = 0]

\* gesturedrive.py, the else branch: no hand in the frame
gd_no_hand_branch(st) ==
    [st EXCEPT !.active = FALSE,
               !.gesture = "no hand",
               !.conf = 0,
               !.hist = <<>>]

\* GestureInterface.run, the fallback of a run without a model
fallback_gesture(cx, cy, w, h) ==
    LET center_x == w \div 2
        center_y == h \div 2
    IN  CASE cy < center_y - 50 -> "x+"
          [] cy >= center_y - 50 /\ cy > center_y + 50 -> "x-"
          [] cy >= center_y - 50 /\ cy <= center_y + 50 /\ cx < center_x - 50 -> "y-"
          [] cy >= center_y - 50 /\ cy <= center_y + 50 /\ cx >= center_x - 50
               /\ cx > center_x + 50 -> "y+"
          [] OTHER -> "n"

\* a hand branch whose fallback label goes through the history and the vote
\* like a label of the model
gi_hand_branch_fallback_smoothed(st, hands, mdl) ==
    LET hl == hands[1]
        label == IF mdl = "loaded" THEN hl.cls.label
                 ELSE fallback_gesture(hl.cx, hl.cy, CAMERA_WIDTH, CAMERA_HEIGHT)
    IN  IF mdl = "loaded" /\ hl.cls.fail
        THEN [st EXCEPT !.active = TRUE, !.exc = "ClassifierError"]
        ELSE LET history == append_and_pop(st.hist, label, gi_history_length)
                 prediction == smooth(history, label, gi_vote_threshold)
             IN  [st EXCEPT !.active = TRUE,
                            !.hist = history,
                            !.gesture = prediction,
                            !.conf = IF mdl = "loaded" THEN hl.cls.conf ELSE 80]

\* GestureInterface.run, the branch `if results.multi_hand_landmarks:`
gi_hand_branch(st, hands, mdl) ==
    LET hl == hands[1]
    IN  IF mdl = "loaded"
        THEN IF hl.cls.fail
             THEN [st EXCEPT !.active = TRUE, !.exc = "ClassifierError"]
             ELSE LET history == append_and_pop(st.hist, hl.cls.label, gi_history_length)
                      prediction == smooth(history, hl.cls.label, gi_vote_threshold)
                  IN  [st EXCEPT !.active = TRUE,
                                 !.hist = history,
                                 !.gesture = prediction,
                                 !.conf = hl.cls.conf]
        ELSE [st EXCEPT !.active = TRUE,
                        !.gesture = fallback_gesture(hl.cx, hl.cy, CAMERA_WIDTH, CAMERA_HEIGHT),
                        !.conf = 80]

\* the else branch without the sentinel: the gesture of the last hand frame stays
gi_no_hand_branch_keeps_gesture(st) ==
    [st EXCEPT !.active = FALSE,
               !.conf = 0,
               !.hist = <<>>]

\* GestureInterface.run, the else branch: no hand in the frame
gi_no_hand_branch(st) ==
    [st EXCEPT !.active = FALSE,
               !.gesture = "no hand",
               !.conf = 0,
               !.hist = <<>>]

\* gesturedrive.py: left_motor = right_motor = 0, then the if / else on
\* results.multi_hand_landmarks
gd_iteration(st, hands) ==
    LET st0 == [st EXCEPT !.motor = <<0, 0>>]
    IN  IF hands # <<>> THEN gd_hand_branch(st0, hands) ELSE gd_no_hand_branch(st0)

\* hand presence that sticks: once active, a frame without a hand changes
\* nothing
gi_iteration_sticky(st, hands, mdl) ==
    IF hands # <<>> THEN gi_hand_branch(st, hands, mdl)
    ELSE IF st.active THEN st ELSE gi_no_hand_branch(st)

\* GestureInterface.run: the if / else on results.multi_hand_landmarks
gi_iteration(st, hands, mdl) ==
    IF hands # <<>> THEN gi_hand_branch(st, hands, mdl) ELSE gi_no_hand_branch(st)

\* the same landmark sets, classified with the same labels and confidence c
with_confidence(hands, c) ==
    [i \in 1..Len(hands) |->
        [hands[i] EXCEPT !.cls.conf = IF hands[i].cls.fail THEN @ ELSE c]]

\* the frames the twin run is given: the frame of the run with each of the
\* confidences, or the very frame of the run where the auxiliary subsystems
\* are the thing observed
twin_frames(hands) ==
    IF subsystem_error = "unwatched"
    THEN {with_confidence(hands, c) : c \in ConfLevels}
    ELSE {hands}

\* the loop state of the twin run at the top of an iteration
twin_record ==
    [active |-> twin.active, gesture |-> twin.gesture, conf |-> twin.conf,
     hist |-> twin.hist, motor |-> twin.motor, exc |-> "none"]

\* the twin run after the if / else of an iteration: nothing sent yet
twin_done(st) ==
    twin' = [active |-> st.active, gesture |-> st.gesture, conf |-> st.conf,
             hist |-> st.hist, motor |-> st.motor, exc |-> st.exc, sink |-> <<>>]

\* the raw label of one hand frame, as the frame loop obtains it
raw_label(hl, mdl) ==
    IF mdl = "loaded" THEN hl.cls.label
    ELSE fallback_gesture(hl.cx, hl.cy, CAMERA_WIDTH, CAMERA_HEIGHT)

keep_last(s, n) ==
    IF Len(s) > n THEN SubSeq(s, Len(s) - n + 1, Len(s)) ELSE s

\* raw_since after a frame with these hands: the raw labels obtained, in order
RECURSIVE observe(_, _, _, _)
observe(raw, hands, mdl, n) ==
    IF hands = <<>> \/ (mdl = "loaded" /\ Head(hands).cls.fail) THEN raw
    ELSE observe(keep_last(Append(raw, raw_label(Head(hands), mdl)), n),
                 Tail(hands), mdl, n)

\* results.multi_hand_landmarks[0], the one landmark set GestureInterface reads
first_only(hands) == IF hands = <<>> THEN <<>> ELSE <<hands[1]>>

assign_loop_state(st) ==
    /\ control_active' = st.active
    /\ current_gesture' = st.gesture
    /\ gesture_confidence' = st.conf
    /\ prediction_history' = st.hist
    /\ motor' = st.motor

\* what every iteration that got a frame leaves behind, given the branch's result
frame_done(st, hands, used) ==
    /\ assign_loop_state(st)
    /\ detected' = hands
    /\ frame_kind' = CASE hands = <<>> -> "no_hand"
                       [] hands # <<>> /\ st.exc = "none" -> "hand"
                       [] OTHER -> "classify_failed"
    /\ raw_since' = IF hands = <<>> THEN <<>>
                    ELSE observe(raw_since, used, model, trace_length(prog))
    /\ exc' = st.exc
    /\ pc' = IF st.exc = "none" THEN "apply_motor" ELSE "cleanup"

\* ret = False handled as a frame without a hand: the loop goes on
read_failed_as_no_hand ==
    /\ assign_loop_state(gd_no_hand_branch([loop_record EXCEPT !.motor = <<0, 0>>]))
    /\ frame_kind' = "read_failed"
    /\ pc' = "apply_motor"
    /\ twin' = [twin EXCEPT !.sink = <<>>]
    /\ detected' = <<>>
    /\ UNCHANGED <<raw_since, exc>>

\* cap.read() returned ret = False: break
read_failed ==
    /\ frame_kind' = "read_failed"
    /\ pc' = "cleanup"
    /\ twin' = [twin EXCEPT !.sink = <<>>]
    /\ detected' = <<>>
    /\ UNCHANGED <<loop_state, raw_since, exc>>

\* update_sensors without its except clauses: a failure of the rover's sensors
\* leaves the while loop
update_sensors_uncaught ==
    /\ pc = "loop"
    /\ \E failed \in BOOLEAN : caught(IF failed THEN "sensors" ELSE "none")
    /\ pc' = IF subsystem_error' = "sensors" THEN "cleanup" ELSE "read_frame"
    /\ UNCHANGED <<config, library_state, detected, extract_state, twin, prog, model, cap,
                   startup_errors, running, loop_state, exc, motor_sink, sink_raised,
                   ever_sent, final_stop, frame_kind, raw_since>>

\* the top of the while loop: update_sensors when its interval has passed. A
\* failure of the rover's sensors is caught inside it (gesturedrive.py writes
\* 'Error' into sensor_data, GestureInterface prints the error)
update_sensors ==
    /\ pc = "loop"
    /\ \E failed \in BOOLEAN : caught(IF failed THEN "sensors" ELSE "none")
    /\ pc' = "read_frame"
    /\ UNCHANGED <<config, library_state, detected, extract_state, twin, prog, model, cap,
                   startup_errors, running, loop_state, exc, motor_sink, sink_raised,
                   ever_sent, final_stop, frame_kind, raw_since>>

\* gesturedrive.py: cap.read() to the end of the if / else on the detector's result
gd_frame ==
    /\ prog = "gesturedrive"
    /\ pc = "read_frame"
    /\ caught("none")
    /\ motor_sink' = <<>>
    /\ sink_raised' = FALSE
    /\ \E ret \in BOOLEAN :
         IF ~ret THEN read_failed
         ELSE \E hands \in SeqsUpTo(ModelHands, max_num_hands) :
              \E twin_hands \in twin_frames(hands) :
                /\ frame_done(gd_iteration(loop_record, hands), hands, hands)
                /\ twin_done(gd_iteration(twin_record, twin_hands))
    /\ UNCHANGED <<config, library_state, extract_state, prog, model, cap, startup_errors, running, ever_sent, final_stop>>

\* GestureInterface.run: cap.read() to the end of the if / else on the detector's result
gi_frame ==
    /\ prog = "gesture_interface"
    /\ pc = "read_frame"
    /\ caught("none")
    /\ motor_sink' = <<>>
    /\ sink_raised' = FALSE
    /\ \E ret \in BOOLEAN :
         IF ~ret THEN read_failed
         ELSE \E hands \in SeqsUpTo(IF model = "loaded" THEN ModelHands
                                    ELSE FallbackHands, max_num_hands) :
              \E twin_hands \in twin_frames(hands) :
                /\ frame_done(gi_iteration(loop_record, hands, model),
                              hands, first_only(hands))
                /\ twin_done(gi_iteration(twin_record, twin_hands, model))
    /\ UNCHANGED <<config, library_state, extract_state, prog, model, cap, startup_errors, running, ever_sent, final_stop>>

(***************************************************************************)
(* The motor command of the iteration, the keyboard, the shutdown.         *)
(***************************************************************************)
\* gesturedrive.py: Motors.write(left_motor, right_motor), not guarded
gd_apply_motor ==
    /\ prog = "gesturedrive"
    /\ pc = "apply_motor"
    /\ motor_sink' = Append(motor_sink, motor)
    /\ ever_sent' = TRUE
    /\ \E raised \in BOOLEAN :
         /\ sink_raised' = raised
         /\ twin' = [twin EXCEPT !.sink = Append(@, twin.motor),
                                 !.exc = IF raised THEN "MotorSinkError" ELSE @]
         /\ IF raised
            THEN /\ exc' = "MotorSinkError"
                 /\ pc' = "cleanup"
            ELSE /\ pc' = "handle_key"
                 /\ UNCHANGED exc
    /\ caught("none")
    /\ UNCHANGED <<config, library_state, detected, extract_state, prog, model, cap, startup_errors, running, loop_state,
                   final_stop, frame_kind, raw_since>>

\* GestureInterface.run: the command of current_gesture, sent inside try / except
gi_apply_motor ==
    /\ prog = "gesture_interface"
    /\ pc = "apply_motor"
    /\ motor' = gi_gesture_to_motor_command(current_gesture)
    /\ motor_sink' = Append(motor_sink, motor')
    /\ twin' = [twin EXCEPT !.motor = gi_gesture_to_motor_command(twin.gesture),
                            !.sink = Append(@, gi_gesture_to_motor_command(twin.gesture))]
    /\ ever_sent' = TRUE
    /\ \E raised \in BOOLEAN : sink_raised' = raised
    /\ pc' = "handle_key"
    /\ caught("none")
    /\ UNCHANGED <<config, library_state, detected, extract_state, prog, model, cap, startup_errors, running, control_active,
                   current_gesture, gesture_confidence, prediction_history, exc,
                   final_stop, frame_kind, raw_since>>

\* the quit key clears running, and the loop reads the next frame all the same
handle_key_goes_on ==
    /\ pc = "handle_key"
    /\ \E key \in Keys :
         /\ IF key = "q" \/ key = "esc"
            THEN /\ running' = FALSE
                 /\ pc' = "loop"
            ELSE /\ pc' = "loop"
                 /\ UNCHANGED running
         /\ IF key = "c"
            THEN \E failed \in BOOLEAN : caught(IF failed THEN "led" ELSE "none")
            ELSE caught("none")
    /\ UNCHANGED <<config, library_state, detected, extract_state, twin, prog, model, cap, startup_errors, loop_state, exc, motor_sink,
                   sink_raised, ever_sent, final_stop, frame_kind, raw_since>>

\* cv2.waitKey(1): 'q' or Esc clears running and the while loop ends
handle_key ==
    /\ pc = "handle_key"
    /\ \E key \in Keys :
         /\ IF key = "q" \/ key = "esc"
            THEN /\ running' = FALSE
                 /\ pc' = "cleanup"
            ELSE /\ pc' = "loop"
                 /\ UNCHANGED running
         /\ IF key = "c"
            THEN \E failed \in BOOLEAN : caught(IF failed THEN "led" ELSE "none")
            ELSE caught("none")
    /\ UNCHANGED <<config, library_state, detected, extract_state, twin, prog, model, cap, startup_errors, loop_state, exc, motor_sink,
                   sink_raised, ever_sent, final_stop, frame_kind, raw_since>>

\* Ctrl-C that ends the script on the spot, no finally block
keyboard_interrupt_no_cleanup ==
    /\ pc \in {"loop", "read_frame", "apply_motor", "handle_key"}
    /\ exc' = "KeyboardInterrupt"
    /\ twin' = [twin EXCEPT !.exc = "KeyboardInterrupt"]
    /\ pc' = "exited"
    /\ caught("none")
    /\ UNCHANGED <<config, library_state, detected, extract_state, prog, model, cap, startup_errors, running, loop_state,
                   motor_sink, sink_raised, ever_sent, final_stop, frame_kind,
                   raw_since>>

\* Ctrl-C anywhere inside the try: except KeyboardInterrupt
keyboard_interrupt ==
    /\ pc \in {"loop", "read_frame", "apply_motor", "handle_key"}
    /\ exc' = "KeyboardInterrupt"
    /\ twin' = [twin EXCEPT !.exc = "KeyboardInterrupt"]
    /\ pc' = "cleanup"
    /\ caught("none")
    /\ UNCHANGED <<config, library_state, detected, extract_state, prog, model, cap, startup_errors, running, loop_state,
                   motor_sink, sink_raised, ever_sent, final_stop, frame_kind,
                   raw_since>>

\* finally / cleanup, first statement: cap.release()
cleanup_release ==
    /\ pc = "cleanup"
    /\ cap' = "released"
    /\ pc' = "cleanup_stop"
    /\ caught("none")
    /\ UNCHANGED <<config, library_state, detected, extract_state, twin, prog, model, startup_errors, running, loop_state, exc,
                   motor_sink, sink_raised, ever_sent, final_stop, frame_kind,
                   raw_since>>

\* finally / cleanup, after the release: the (0, 0) inside try / except
cleanup_stop ==
    /\ pc = "cleanup_stop"
    /\ ever_sent' = TRUE
    /\ \E raised \in BOOLEAN :
         final_stop' = IF raised THEN "failed" ELSE "sent"
    /\ pc' = "done"
    /\ caught("none")
    /\ UNCHANGED <<config, library_state, detected, extract_state, twin, prog, model, cap, startup_errors, running, loop_state, exc,
                   motor_sink, sink_raised, frame_kind, raw_since>>

Next ==
    \/ gd_load_model
    \/ load_model
    \/ gd_connect
    \/ init_camera
    \/ update_sensors
    \/ gd_frame
    \/ gi_frame
    \/ gd_apply_motor
    \/ gi_apply_motor
    \/ handle_key
    \/ keyboard_interrupt
    \/ cleanup_release
    \/ cleanup_stop

Spec == Init /\ [][Next]_vars

\* the same runs, with the failures of the optional subsystems followed
SubsystemInit ==
    /\ prog \in Progs
    /\ pc = "load_model"
    /\ current_gesture = "none"
    /\ motor = <<0, 0>>
    /\ loop_idle
    /\ library_idle
    /\ subsystem_error = "none"
    /\ config \in IF prog = "gesture_interface" THEN {c \in Configs : validate(c)}
                  ELSE {RoverConfig}
    /\ extract_idle

SubsystemSpec == SubsystemInit /\ [][Next]_vars

(***************************************************************************)
(* Properties of the frame loop.                                           *)
(***************************************************************************)
InFrameLoopOrAfter ==
    pc \in {"loop", "read_frame", "apply_motor", "handle_key", "cleanup", "cleanup_stop",
           "done"}

AllZero(commands) == \A i \in 1..Len(commands) : commands[i] = <<0, 0>>

\* C1: in a frame in which the detector returns no landmark set, whatever the
\* frames before it, the command handed to the motor sink is (0,0), the
\* current gesture is "no hand" and the prediction history is empty.
NoHandStops ==
    frame_kind = "no_hand" =>
        /\ current_gesture = "no hand"
        /\ prediction_history = <<>>
        /\ AllZero(motor_sink)
        /\ pc = "handle_key" => motor_sink = << <<0, 0>> >>

\* a no-hand frame of gesturedrive.py whose (0,0) has been sent
NoHandStopsWitness ==
    /\ prog = "gesturedrive"
    /\ frame_kind = "no_hand"
    /\ pc = "handle_key"
    /\ motor_sink = << <<0, 0>> >>

\* C2: when the motor sink raises on the command of a frame, the frame loop
\* does not end: the exception does not leave the loop and the command was
\* sent once.
SinkFailureKeepsLooping ==
    sink_raised => (exc # "MotorSinkError" /\ Len(motor_sink) = 1)

\* C3: in the shutdown sequence the (0,0) command comes before the release of
\* the camera: once the camera is released the final stop has been issued.
StopBeforeRelease ==
    cap = "released" => final_stop # "none"

\* C4: a frame with a hand whose classification fails is handled as a no-hand
\* frame: the history is cleared, only (0,0) is sent, and the loop goes on.
ClassifyFailureIsNoHand ==
    frame_kind = "classify_failed" =>
        /\ exc # "ClassifierError"
        /\ prediction_history = <<>>
        /\ AllZero(motor_sink)

\* C5 as stated: a model that cannot be loaded, or a camera that cannot be
\* opened, ends the run before the frame loop and before any motor command.
StartupFailureAborts ==
    ("model" \in startup_errors \/ "camera" \in startup_errors) =>
        (~InFrameLoopOrAfter /\ ~ever_sent)

\* C5 as amended: a camera that cannot be opened (both scripts) or a model that
\* cannot be loaded in gesturedrive.py ends the run before the frame loop and
\* before any motor command; in GestureInterface a model that cannot be loaded
\* leaves model = None and the startup goes on.
StartupFailureAbortsOrFallsBack ==
    /\ ("camera" \in startup_errors \/ (prog = "gesturedrive" /\ "model" \in startup_errors)) =>
           (pc = "exited" /\ ~ever_sent /\ frame_kind = "none")
    /\ (prog = "gesture_interface" /\ "model" \in startup_errors) => model = "None"

\* gesturedrive.py has ended on a model that could not be loaded
StartupFailureWitness ==
    /\ prog = "gesturedrive"
    /\ "model" \in startup_errors
    /\ pc = "exited"

(***************************************************************************)
(* Properties of the smoothing window.                                     *)
(***************************************************************************)
Last(s) == s[Len(s)]

IsSuffix(s, t) ==
    Len(s) <= Len(t) /\ s = SubSeq(t, Len(t) - Len(s) + 1, Len(t))

FirstIndex(s, x) ==
    CHOOSE i \in 1..Len(s) : s[i] = x /\ \A j \in 1..(i - 1) : s[j] # x

\* C6 as stated: the history never holds more than k labels and holds exactly
\* the most recent min(k, n) raw labels, oldest first, n the number of hand
\* frames since the last no-hand frame.
HistoryIsRecentRaw ==
    /\ Len(prediction_history) <= history_length(prog)
    /\ prediction_history = keep_last(raw_since, history_length(prog))

\* C6 as amended: the history never holds more than k labels; in a run with a
\* loaded model it holds exactly the most recent min(k, n) raw labels, oldest
\* first, n the number of hand frames since the last no-hand frame; in a run
\* of GestureInterface without a model it stays empty.
HistoryIsRecentRawOfModel ==
    /\ Len(prediction_history) <= history_length(prog)
    /\ model = "loaded" => prediction_history = keep_last(raw_since, history_length(prog))
    /\ model # "loaded" => prediction_history = <<>>

\* GestureInterface after three hand frames in a row: the window of two is
\* full and the oldest of the three raw labels has been popped
HistoryFullWitness ==
    /\ prog = "gesture_interface"
    /\ model = "loaded"
    /\ frame_kind = "hand"
    /\ raw_since = <<"x-", "x+", "n">>
    /\ prediction_history = <<"x+", "n">>

\* C7: with at least `threshold` labels in the history after the push, the
\* effective label has the highest count in the history, and among the labels
\* of that count it is the one whose first occurrence is nearest the front.
MajorityFirstWins ==
    (frame_kind = "hand" /\ Len(prediction_history) >= vote_threshold(prog)) =>
        /\ \E i \in 1..Len(prediction_history) : prediction_history[i] = current_gesture
        /\ \A i \in 1..Len(prediction_history) :
             LET x == prediction_history[i]
                 nx == counter_count(prediction_history, x)
                 ne == counter_count(prediction_history, current_gesture)
             IN  /\ nx <= ne
                 /\ (nx = ne /\ x # current_gesture) =>
                        FirstIndex(prediction_history, current_gesture)
                            < FirstIndex(prediction_history, x)

\* gesturedrive.py: two labels tie at two votes in a window of five, the raw
\* label of the frame is one of them and the other, met first, wins
MajorityTieWitness ==
    /\ prog = "gesturedrive"
    /\ frame_kind = "hand"
    /\ prediction_history = <<"y+", "x+", "n", "y+", "x+">>
    /\ current_gesture = "y+"

\* C8: with fewer than `threshold` labels in the history after the push, the
\* effective label of the frame is the raw label of the frame.
BelowThresholdPassthrough ==
    (frame_kind = "hand" /\ Len(prediction_history) < vote_threshold(prog)) =>
        current_gesture = Last(raw_since)

\* gesturedrive.py: the second hand frame in a row, its raw label differs from
\* the first and is the effective label
PassthroughWitness ==
    /\ prog = "gesturedrive"
    /\ frame_kind = "hand"
    /\ prediction_history = <<"x+", "y-">>
    /\ current_gesture = "y-"

\* C9: the first hand frame after a no-hand frame has its own raw label as
\* effective label, and the history holds no label from before the no-hand
\* frame: it is a suffix of the raw labels obtained since that frame.
RestartAfterNoHand ==
    /\ (frame_kind = "hand" /\ Len(raw_since) = 1) => current_gesture = raw_since[1]
    /\ IsSuffix(prediction_history, raw_since)

\* a first hand frame after a no-hand frame: a command went out in an earlier
\* iteration, the command of this one is still to be sent, and one raw label
\* has been obtained since the no-hand frame
RestartWitness ==
    /\ prog = "gesturedrive"
    /\ ever_sent
    /\ pc = "apply_motor"
    /\ frame_kind = "hand"
    /\ raw_since = <<"x+">>
    /\ prediction_history = <<"x+">>
    /\ current_gesture = "x+"

\* the labels of the last three hand frames in a row, when they all are label
ThreeInARow(label) ==
    /\ frame_kind = "hand"
    /\ Len(raw_since) >= 3
    /\ \A i \in (Len(raw_since) - 2)..Len(raw_since) : raw_since[i] = label

ConfiguredCommand(p, label) ==
    IF p = "gesturedrive" THEN gd_gesture_map[label] ELSE GESTURE_MAP[label]

\* C10: when three hand frames in a row are classified as the same label L, the
\* command sent on the third is the configured command of L, (30,30) for "x+",
\* whatever the history held before them.
ThreeInARowCommands ==
    \A label \in gesture_names :
        (ThreeInARow(label) /\ motor_sink # <<>>) =>
            /\ motor_sink = <<ConfiguredCommand(prog, label)>>
            /\ label = "x+" => motor_sink = << <<30, 30>> >>

\* gesturedrive.py: two other labels fill the window, then three frames of
\* "x+", and (30,30) has been sent on the third
ThreeInARowWitness ==
    /\ prog = "gesturedrive"
    /\ raw_since = <<"n", "n", "x+", "x+", "x+">>
    /\ prediction_history = raw_since
    /\ frame_kind = "hand"
    /\ motor_sink = << <<30, 30>> >>

\* the command of the iteration, once handed to the motor sink
Sent == frame_kind = "hand" /\ motor_sink # <<>>

\* C12: the neutral gesture "n" maps to the zero command (0,0), stop, in the
\* gesture map of gesturedrive.py and in GESTURE_MAP of GestureInterface: a
\* frame whose gesture is "n" sends (0,0).
NeutralStops ==
    (Sent /\ current_gesture = "n") => motor_sink = << <<0, 0>> >>

\* C13: the backward gesture "x-" is sent as a command whose two speeds are
\* negative or zero in both programs, and the forward, left and right
\* gestures are never sent as the command of the backward gesture.
BackwardNeverForward ==
    Sent =>
        LET command == motor_sink[1]
        IN  /\ current_gesture = "x-" =>
                /\ command = ConfiguredCommand(prog, "x-")
                /\ command[1] <= 0
                /\ command[2] <= 0
            /\ current_gesture \in {"x+", "y+", "y-"} =>
                command # ConfiguredCommand(prog, "x-")

\* GestureInterface has sent the command of "x-": both speeds are negative
BackwardWitness ==
    /\ prog = "gesture_interface"
    /\ Sent
    /\ current_gesture = "x-"
    /\ motor_sink = << <<-20, -20>> >>

WithinLimits(cfg, command) ==
    \A i \in 1..2 :
        cfg.min_motor_speed <= command[i] /\ command[i] <= cfg.max_motor_speed

\* C14: every command handed to the motor sink, in any frame and at shutdown,
\* has both speeds inside [min_motor_speed, max_motor_speed] of the
\* configuration, the gesture map having been checked against them when it
\* was loaded (pc has left "load_model" only with a map inside the limits).
CommandsWithinLimits ==
    \A i \in 1..Len(motor_sink) : WithinLimits(config, motor_sink[i])

\* C15: confidence never influences the dispatched command: the run and its
\* twin, which sees the same frames and the same raw labels with other
\* confidences, have handed the same commands to the motor sink in every
\* iteration.
ConfidenceNeverGates == twin.sink = motor_sink

\* gesturedrive.py: the same hand frames, reported with a confidence of 50 in
\* the run and of 100 in its twin, and both have sent (30,30)
ConfidenceWitness ==
    /\ prog = "gesturedrive"
    /\ Sent
    /\ gesture_confidence < twin.conf
    /\ prediction_history = <<"n", "x+", "x+", "x+">>
    /\ motor_sink = << <<30, 30>> >>
    /\ twin.sink = motor_sink

\* C16: when cap.read() fails the frame loop stops for good: the iteration is
\* not handled as a frame without a hand (the history still holds the raw
\* labels it held, nothing is handed to the motor sink), no later frame is
\* processed, and the script is in its shutdown sequence.
ReadFailureIsTerminal ==
    /\ [](frame_kind = "read_failed" =>
            /\ pc \in {"cleanup", "cleanup_stop", "done"}
            /\ motor_sink = <<>>
            /\ model = "loaded" =>
                 prediction_history = keep_last(raw_since, history_length(prog)))
    /\ [][frame_kind = "read_failed" => frame_kind' = "read_failed"]_vars

\* gesturedrive.py: the read failed after two hand frames, the history still
\* holds their labels, and the shutdown sequence has run to its end
ReadFailureWitness ==
    /\ prog = "gesturedrive"
    /\ frame_kind = "read_failed"
    /\ prediction_history = <<"x+", "y+">>
    /\ current_gesture = "y+"
    /\ pc = "done"
    /\ final_stop = "sent"

\* the step is the one in which an iteration got a frame with a hand in it
HandFrameStep ==
    /\ pc = "read_frame"
    /\ frame_kind' \in {"hand", "classify_failed"}
    /\ exc' # "KeyboardInterrupt"

\* C21 as stated: in every frame in which a hand is detected exactly one raw
\* label is pushed to the prediction history (the oldest evicted when the
\* window is full), whatever the detector returned.
OneLabelPerHandFrame ==
    [][HandFrameStep =>
         \E label \in gesture_names :
             prediction_history' = keep_last(Append(prediction_history, label),
                                             history_length(prog))]_vars

\* C21 as amended: in every frame in which a hand is detected and classified
\* by the model exactly one raw label is pushed, the label of the first
\* landmark set the detector returned; a frame handled by the fallback of
\* GestureInterface, or one whose classification raised, pushes nothing.
OneLabelPerClassifiedFrame ==
    [][HandFrameStep =>
         prediction_history' =
             IF model = "loaded" /\ frame_kind' = "hand"
             THEN keep_last(Append(prediction_history, detected'[1].cls.label),
                            history_length(prog))
             ELSE prediction_history]_vars

\* gesturedrive.py: the third hand frame in a row has pushed its one label
OneLabelWitness ==
    /\ prog = "gesturedrive"
    /\ frame_kind = "hand"
    /\ Len(detected) = 1
    /\ detected[1].cls.label = "y-"
    /\ prediction_history = <<"x+", "y+", "y-">>
    /\ pc = "apply_motor"

\* the command the gesture map of the program holds for a label, (0,0) for a
\* label without an entry
MapOrZero(p, label) ==
    IF label \in gesture_names THEN ConfiguredCommand(p, label) ELSE <<0, 0>>

\* C22: in every iteration that obtains a frame exactly one motor command is
\* sent to the sink, the gesture map's value for the effective label of that
\* frame, never a command of an earlier frame.
OneCommandPerFrame ==
    (/\ frame_kind \in {"hand", "no_hand", "classify_failed"}
     /\ pc # "apply_motor"
     /\ exc # "KeyboardInterrupt") =>
        motor_sink = <<MapOrZero(prog, current_gesture)>>

\* C23: whether a frame is handled as HandPresent or NoHand depends only on
\* whether the detector returned a landmark set for that frame: control_active
\* is true exactly then, a frame without a hand sends (0,0) and a frame with
\* a hand sends the command of its gesture, whatever the frames before were.
PresenceIsPerFrame ==
    frame_kind \in {"hand", "no_hand", "classify_failed"} =>
        /\ control_active <=> detected # <<>>
        /\ (frame_kind = "no_hand" /\ pc = "handle_key") =>
               motor_sink = << <<0, 0>> >>
        /\ (frame_kind = "hand" /\ pc = "handle_key") =>
               motor_sink = <<MapOrZero(prog, current_gesture)>>

\* GestureInterface: a frame without a hand right after a frame that sent
\* (30,30); it is handled as NoHand at once
PresenceWitness ==
    /\ prog = "gesture_interface"
    /\ frame_kind = "no_hand"
    /\ pc = "apply_motor"
    /\ motor = <<30, 30>>
    /\ ~control_active
    /\ current_gesture = "no hand"

\* C24: the quit key is looked at once per iteration, after the command of
\* the frame has been handed to the motor sink; once it was seen no further
\* frame is read and the script is in its shutdown sequence.
QuitAfterDispatch ==
    /\ pc = "handle_key" => Len(motor_sink) = 1
    /\ ~running =>
        /\ pc \in {"cleanup", "cleanup_stop", "done"}
        /\ Len(motor_sink) = 1
        /\ frame_kind \in {"hand", "no_hand"}

\* gesturedrive.py: 'q' after a frame that sent (30,30); the shutdown has run
QuitWitness ==
    /\ prog = "gesturedrive"
    /\ ~running
    /\ motor_sink = << <<30, 30>> >>
    /\ pc = "done"

\* C25 as stated: a failure in update_sensors or in the LED control of the
\* 'c' key never ends the loop nor keeps the command of the iteration from
\* being sent, and once the loop runs only the user's quit ends it (a
\* KeyboardInterrupt counted as one).
OnlyQuitEndsLoop ==
    /\ subsystem_error = "sensors" => pc = "read_frame" /\ running
    /\ subsystem_error = "led" => pc = "loop" /\ running /\ Len(motor_sink) = 1
    /\ pc \in {"cleanup", "cleanup_stop", "done"} =>
           ~running \/ exc = "KeyboardInterrupt"

\* C25 as amended: a failure in update_sensors or in the LED control of the
\* 'c' key is caught where it happens: the iteration goes on to read its
\* frame, respectively has sent its command and goes on to the next
\* iteration. The loop ends on the quit key, a KeyboardInterrupt, a frame
\* that could not be read, or an exception raised while a frame is handled.
AuxFailuresAreCaught ==
    /\ subsystem_error = "sensors" =>
           pc = "read_frame" /\ running /\ exc = "none"
    /\ subsystem_error = "led" =>
           pc = "loop" /\ running /\ exc = "none" /\ Len(motor_sink) = 1
    /\ pc \in {"cleanup", "cleanup_stop", "done"} =>
           \/ ~running
           \/ exc \in {"KeyboardInterrupt", "ClassifierError", "MotorSinkError"}
           \/ frame_kind = "read_failed"

\* the LED control failed on 'c' after the frame had sent (30,30): the loop
\* is at the top of its next iteration
AuxFailureWitness ==
    /\ subsystem_error = "led"
    /\ motor_sink = << <<30, 30>> >>
    /\ running
    /\ pc = "loop"

ShutdownStops ==
    /\ (~running \/ exc # "none" \/ frame_kind = "read_failed") =>
           pc \in {"cleanup", "cleanup_stop", "done"}
    /\ pc \in {"cleanup", "cleanup_stop"} => final_stop = "none"
    /\ pc = "done" => final_stop \in {"sent", "failed"} /\ cap = "released"
    /\ final_stop # "none" => pc = "done"
    /\ pc = "exited" => ~ever_sent

\* the classifier raised in a frame, and the (0,0) of the shutdown failed too:
\* the shutdown has completed
ShutdownWitness ==
    /\ exc = "ClassifierError"
    /\ final_stop = "failed"
    /\ cap = "released"
    /\ pc = "done"

\* C28: GestureInterface without a model: a hand frame neither pushes to nor
\* reads the prediction history (it stays empty), its gesture is one of the
\* five labels and follows from the position of landmark 9 in that frame
\* alone; a frame without a hand sends (0,0) all the same.
FallbackIsStateless ==
    (prog = "gesture_interface" /\ model = "None") =>
        /\ prediction_history = <<>>
        /\ frame_kind = "hand" =>
               /\ current_gesture \in gesture_names
               /\ current_gesture =
                      fallback_gesture(detected[1].cx, detected[1].cy,
                                       CAMERA_WIDTH, CAMERA_HEIGHT)
               /\ pc = "handle_key" =>
                      motor_sink = <<MapOrZero(prog, current_gesture)>>
        /\ (frame_kind = "no_hand" /\ pc = "handle_key") =>
               motor_sink = << <<0, 0>> >>

\* the second fallback frame in a row: landmark 9 went from one side of the
\* image to the other, and the gesture followed at once
FallbackWitness ==
    /\ prog = "gesture_interface"
    /\ model = "None"
    /\ frame_kind = "hand"
    /\ Len(raw_since) >= 2
    /\ raw_since[Len(raw_since) - 1] # raw_since[Len(raw_since)]
    /\ current_gesture = raw_since[Len(raw_since)]
    /\ prediction_history = <<>>
    /\ pc = "handle_key"

(***************************************************************************)
(* gesture_to_motor_command on its own: one call after another, each with  *)
(* a label drawn from the vocabulary, the sentinels and other strings.     *)
(***************************************************************************)
\* the strings handed to gesture_to_motor_command
TestLabels ==
    gesture_names \cup {"no hand", "none", "unknown", "", "X+", "N", "forward", "stop"}

MapperInit ==
    /\ prog \in Progs
    /\ pc = "map_call"
    /\ current_gesture \in TestLabels
    /\ motor = <<0, 0>>
    /\ loop_idle
    /\ library_idle
    /\ subsystem_error = "unwatched"
    /\ config = RoverConfig
    /\ extract_idle

\* left_motor, right_motor = gesture_to_motor_command(current_gesture)
map_command ==
    /\ pc = "map_call"
    /\ motor' = IF prog = "gesturedrive"
                THEN gd_gesture_to_motor_command(current_gesture)
                ELSE gi_gesture_to_motor_command(current_gesture)
    /\ pc' = "map_returned"
    /\ UNCHANGED <<config, library_state, detected, subsystem_error, extract_state, twin, prog, model, cap, startup_errors, running,
                   control_active, current_gesture, gesture_confidence,
                   prediction_history, exc, motor_sink, sink_raised, ever_sent,
                   final_stop, frame_kind, raw_since>>

\* the next call, with another label
map_again ==
    /\ pc = "map_returned"
    /\ current_gesture' \in TestLabels
    /\ pc' = "map_call"
    /\ UNCHANGED <<config, library_state, detected, subsystem_error, extract_state, twin, prog, model, cap, startup_errors, running,
                   control_active, gesture_confidence, prediction_history, motor,
                   exc, motor_sink, sink_raised, ever_sent, final_stop, frame_kind,
                   raw_since>>

MapperNext ==
    \/ map_command
    \/ map_again

MapperSpec == MapperInit /\ [][MapperNext]_vars

\* C11: gesture_to_motor_command returns (0,0) for every label that is not a
\* key of the gesture map, the sentinels "no hand" and "none" and any other
\* string included, and it raises nothing.
UnmappedLabelStops ==
    (pc = "map_returned" /\ current_gesture \notin gesture_names) =>
        /\ motor = <<0, 0>>
        /\ exc = "none"

\* gesture_to_motor_command("no hand") has returned (0,0)
UnmappedLabelWitness ==
    /\ pc = "map_returned"
    /\ current_gesture = "no hand"
    /\ motor = <<0, 0>>

(***************************************************************************)
(* extract_landmarks: the three feature extractors.                        *)
(*                                                                         *)
(* Coordinates are points of an integer grid, so that every difference and *)
(* every sum of squares is exact.  A feature is a real number of the form  *)
(* sgn * sqrt(num / den), kept as the record [sgn, num, den] in lowest     *)
(* terms: d, d / palm_size, distance and distance / palm_size all have     *)
(* this form, and two features are the same number exactly when their      *)
(* records are equal.                                                      *)
(***************************************************************************)
\* the hand is stretched by 0..MaxStretch along each axis
MaxStretch == 2

\* the translations move by -MaxShift..MaxShift along each axis
MaxShift == 1

NUM_LANDMARKS == 21

\* FINGER_TIPS / finger_tips: thumb, index, middle, ring, pinky
finger_tips == <<4, 8, 12, 16, 20>>

RECURSIVE GCD(_, _)
GCD(a, b) == IF b = 0 THEN a ELSE GCD(b, a % b)

sign(v) == IF v > 0 THEN 1 ELSE IF v < 0 THEN -1 ELSE 0

\* the real number s * sqrt(n / d), d > 0, in lowest terms
real(s, n, d) ==
    IF n = 0 \/ s = 0 THEN [sgn |-> 0, num |-> 0, den |-> 1]
    ELSE LET g == GCD(n, d)
         IN  [sgn |-> s, num |-> n \div g, den |-> d \div g]

\* a coordinate difference v as it is, and v / palm_size
whole(v) == real(sign(v), v * v, 1)
divided(v, palm2) == real(sign(v), v * v, palm2)

\* np.linalg.norm(v) squared, for a vector of grid coordinates
norm2(v) == v[1] * v[1] + v[2] * v[2] + v[3] * v[3]

\* a - b on arrays of three coordinates
minus(a, b) == [c \in 1..3 |-> a[c] - b[c]]

\* the Python slice s[a:b] of a flat array
py_slice(s, a, b) == SubSeq(s, a + 1, b)

\* landmarks.extend([landmark.x, landmark.y, landmark.z]) over the 21 landmarks
flat(hand) ==
    [j \in 1..(3 * Len(hand)) |-> hand[((j - 1) \div 3) + 1][((j - 1) % 3) + 1]]

\* train.py, HandGestureRecognizer.extract_landmarks: the flat array of 63
\* coordinates, palm_size from the slices [0:3] and [9:12] of it
train_extract_landmarks(hand) ==
    LET landmarks == flat(hand)
        wrist == py_slice(landmarks, 0, 3)
        normalized == [j \in 1..Len(landmarks) |-> landmarks[j] - wrist[((j - 1) % 3) + 1]]
        palm2 == norm2(minus(py_slice(landmarks, 0, 3), py_slice(landmarks, 9, 12)))
        distance2(tip_idx) ==
            norm2(minus(py_slice(landmarks, tip_idx * 3, tip_idx * 3 + 3), wrist))
    IN  [j \in 1..Len(normalized) |->
            IF palm2 > 0 THEN divided(normalized[j], palm2) ELSE whole(normalized[j])]
        \o [k \in 1..Len(finger_tips) |->
            IF palm2 > 0 THEN real(1, distance2(finger_tips[k]), palm2)
            ELSE real(1, distance2(finger_tips[k]), 1)]

\* the extractor without the subtraction of the wrist
gd_extract_landmarks_absolute(hand) ==
    LET landmarks == flat(hand)
        wrist == py_slice(landmarks, 0, 3)
        normalized == [j \in 1..Len(landmarks) |-> landmarks[j]]
        palm2 == norm2(minus(py_slice(landmarks, 0, 3), py_slice(landmarks, 9, 12)))
        distance2(tip_idx) ==
            norm2(minus(py_slice(landmarks, tip_idx * 3, tip_idx * 3 + 3), wrist))
    IN  [j \in 1..Len(normalized) |->
            IF palm2 > 0 THEN divided(normalized[j], palm2) ELSE whole(normalized[j])]
        \o [k \in 1..Len(finger_tips) |->
            IF palm2 > 0 THEN real(1, distance2(finger_tips[k]), palm2)
            ELSE real(1, distance2(finger_tips[k]), 1)]

\* gesturedrive.py, extract_landmarks: the same statements as train.py
gd_extract_landmarks(hand) ==
    LET landmarks == flat(hand)
        wrist == py_slice(landmarks, 0, 3)
        normalized == [j \in 1..Len(landmarks) |-> landmarks[j] - wrist[((j - 1) % 3) + 1]]
        palm2 == norm2(minus(py_slice(landmarks, 0, 3), py_slice(landmarks, 9, 12)))
        distance2(tip_idx) ==
            norm2(minus(py_slice(landmarks, tip_idx * 3, tip_idx * 3 + 3), wrist))
    IN  [j \in 1..Len(normalized) |->
            IF palm2 > 0 THEN divided(normalized[j], palm2) ELSE whole(normalized[j])]
        \o [k \in 1..Len(finger_tips) |->
            IF palm2 > 0 THEN real(1, distance2(finger_tips[k]), palm2)
            ELSE real(1, distance2(finger_tips[k]), 1)]

\* the extractor appending the fingertip distances from the pinky to the thumb
gi_extract_landmarks_pinky_first(hand) ==
    LET landmarks == hand
        wrist == landmarks[1]
        normalized == flat([i \in 1..Len(landmarks) |-> minus(landmarks[i], wrist)])
        palm2 == norm2(minus(landmarks[1], landmarks[10]))
        distance2(tip_idx) == norm2(minus(landmarks[tip_idx + 1], wrist))
        tips == [k \in 1..Len(finger_tips) |-> finger_tips[Len(finger_tips) + 1 - k]]
    IN  [j \in 1..Len(normalized) |->
            IF palm2 > 0 THEN divided(normalized[j], palm2) ELSE whole(normalized[j])]
        \o [k \in 1..Len(tips) |->
            IF palm2 > 0 THEN real(1, distance2(tips[k]), palm2)
            ELSE real(1, distance2(tips[k]), 1)]

\* GestureInterface.extract_landmarks: the array of 21 rows, palm_size from
\* the rows 0 and 9 of it
gi_extract_landmarks(hand) ==
    LET landmarks == hand
        wrist == landmarks[1]
        normalized == flat([i \in 1..Len(landmarks) |-> minus(landmarks[i], wrist)])
        palm2 == norm2(minus(landmarks[1], landmarks[10]))
        distance2(tip_idx) == norm2(minus(landmarks[tip_idx + 1], wrist))
    IN  [j \in 1..Len(normalized) |->
            IF palm2 > 0 THEN divided(normalized[j], palm2) ELSE whole(normalized[j])]
        \o [k \in 1..Len(finger_tips) |->
            IF palm2 > 0 THEN real(1, distance2(finger_tips[k]), palm2)
            ELSE real(1, distance2(finger_tips[k]), 1)]

Extractors == {"train", "gesturedrive", "gesture_interface"}

\* extract_landmarks of the program p
extract_landmarks(p, hand) ==
    CASE p = "train" -> train_extract_landmarks(hand)
      [] p = "gesturedrive" -> gd_extract_landmarks(hand)
      [] OTHER -> gi_extract_landmarks(hand)

\* where landmark i lies relative to the wrist in a hand stretched by one
\* along each axis: landmark 3 leaves the wrist along z only, landmark 9
\* along y only, and x takes both signs
offset(i) == <<(i % 3) * (1 - 2 * (i % 2)), i \div 5, i % 9>>

\* hand_landmarks.landmark: 21 grid points, landmark 0 at the wrist w
Hand(w, stretch) ==
    [i \in 1..NUM_LANDMARKS |-> [c \in 1..3 |-> w[c] + stretch[c] * offset(i - 1)[c]]]

\* the hands handed to the first call, the wrist at the origin; the
\* translations take it away from there
LandmarkSets ==
    {Hand(<<0, 0, 0>>, stretch) : stretch \in [1..3 -> 0..MaxStretch]}

Translations == [1..3 -> (-MaxShift)..MaxShift] \ {[c \in 1..3 |-> 0]}

\* every landmark moved by the vector t
translated(hand, t) ==
    [i \in 1..Len(hand) |-> [c \in 1..3 |-> hand[i][c] + t[c]]]

ExtractInit ==
    /\ prog \in Extractors
    /\ pc = "extract_call"
    /\ hand_landmarks \in LandmarkSets
    /\ features = <<>>
    /\ features_before = <<>>
    /\ current_gesture = "none"
    /\ motor = <<0, 0>>
    /\ loop_idle
    /\ library_idle
    /\ subsystem_error = "unwatched"
    /\ config = RoverConfig

\* features = extract_landmarks(hand_landmarks)
extract ==
    /\ pc = "extract_call"
    /\ features' = extract_landmarks(prog, hand_landmarks)
    /\ pc' = "extracted"
    /\ UNCHANGED <<config, library_state, detected, subsystem_error, twin, prog, model, cap, startup_errors, running, loop_state,
                   exc, motor_sink, sink_raised, ever_sent, final_stop, frame_kind,
                   raw_since, hand_landmarks, features_before>>

\* the same hand somewhere else in the frame: extract_landmarks once more
extract_translated ==
    /\ pc = "extracted"
    /\ \E t \in Translations : hand_landmarks' = translated(hand_landmarks, t)
    /\ features_before' = features
    /\ features' = extract_landmarks(prog, hand_landmarks')
    /\ pc' = "extracted_again"
    /\ UNCHANGED <<config, library_state, detected, subsystem_error, twin, prog, model, cap, startup_errors, running, loop_state,
                   exc, motor_sink, sink_raised, ever_sent, final_stop, frame_kind,
                   raw_since>>

ExtractNext ==
    \/ extract
    \/ extract_translated

ExtractSpec == ExtractInit /\ [][ExtractNext]_vars

(***************************************************************************)
(* Properties of extract_landmarks.                                        *)
(***************************************************************************)
Extracted == pc \in {"extracted", "extracted_again"}

\* the feature vector as the specification lays it out, unscaled: entry j is
\* the sign s and the square e of coordinate (j-1) % 3 of landmark
\* (j-1) \div 3 relative to landmark 0, then of the distances from landmark 0
\* to the landmarks 4, 8, 12, 16, 20
Layout(hand) ==
    [j \in 1..68 |->
        IF j <= 63
        THEN LET d == hand[((j - 1) \div 3) + 1][((j - 1) % 3) + 1]
                      - hand[1][((j - 1) % 3) + 1]
             IN  [s |-> sign(d), e |-> d * d]
        ELSE LET d2 == norm2(minus(hand[4 * (j - 63) + 1], hand[1]))
             IN  [s |-> sign(d2), e |-> d2]]

\* f is the layout divided by one positive scale
SameUpToScale(f, layout) ==
    /\ \A j \in 1..Len(layout) : f[j].sgn = layout[j].s
    /\ LET nonzero == {k \in 1..Len(layout) : layout[k].e # 0}
       IN  nonzero # {} =>
             LET k == CHOOSE k \in nonzero : \A i \in nonzero : k <= i
             IN  \A j \in 1..Len(layout) :
                   f[j].num * f[k].den * layout[k].e
                       = f[k].num * f[j].den * layout[j].e

\* C17: extract_landmarks returns exactly 68 values for a 21-point landmark
\* set: the 63 wrist-relative coordinates in landmark-major (x, y, z) order,
\* then the 5 fingertip distances of the landmarks 4, 8, 12, 16, 20 in that
\* order, all to one common scale.
FeatureLayout ==
    Extracted =>
        /\ Len(features) = 68
        /\ SameUpToScale(features, Layout(hand_landmarks))

\* GestureInterface, the hand stretched along all three axes: x of landmark 1
\* is -1, the distance of landmark 4 is sqrt(17), that of landmark 20 sqrt(24),
\* all over a palm_size of 1
FeatureLayoutWitness ==
    /\ prog = "gesture_interface"
    /\ pc = "extracted"
    /\ hand_landmarks = Hand(<<0, 0, 0>>, <<1, 1, 1>>)
    /\ Len(features) = 68
    /\ features[4] = [sgn |-> -1, num |-> 1, den |-> 1]
    /\ features[64] = [sgn |-> 1, num |-> 17, den |-> 1]
    /\ features[68] = [sgn |-> 1, num |-> 24, den |-> 1]

\* C18: translating all 21 landmarks by the same vector leaves the feature
\* vector unchanged: the features of the translated landmark set are the
\* features of the landmark set before the translation.
TranslationInvariant ==
    pc = "extracted_again" => features = features_before

\* gesturedrive.py: the stretched hand moved by (1, -1, 1), its features
\* scaled and the same as before
TranslationWitness ==
    /\ prog = "gesturedrive"
    /\ pc = "extracted_again"
    /\ hand_landmarks = translated(Hand(<<0, 0, 0>>, <<1, 1, 1>>), <<1, -1, 1>>)
    /\ features[64] = [sgn |-> 1, num |-> 17, den |-> 9]
    /\ features = features_before

\* C19: with palm_size the distance between landmark 0 and landmark 9 of the
\* original coordinates, the 68 values are the wrist-relative coordinates and
\* the fingertip distances unscaled when palm_size is 0, and each divided by
\* palm_size when palm_size > 0.
ScaledByPalmSize ==
    Extracted =>
        LET palm2 == norm2(minus(hand_landmarks[1], hand_landmarks[10]))
            layout == Layout(hand_landmarks)
        IN  /\ Len(features) = 68
            /\ \A j \in 1..68 :
                 features[j] = real(layout[j].s, layout[j].e,
                                    IF palm2 > 0 THEN palm2 ELSE 1)

\* C20: the extractor of the training script, the extractor of gesturedrive.py
\* and GestureInterface.extract_landmarks return the same values in the same
\* order for the landmark set at hand.
ExtractorsAgree ==
    Extracted =>
        /\ features = train_extract_landmarks(hand_landmarks)
        /\ features = gd_extract_landmarks(hand_landmarks)
        /\ features = gi_extract_landmarks(hand_landmarks)

(***************************************************************************)
(* error_handling.py: retry_on_failure, one call of the wrapped function    *)
(* after the other.                                                         *)
(***************************************************************************)
MaxAttempts == 3

\* the exception classes a wrapped function raises here, and the class each
\* derives from
ExceptionTypes ==
    {"ValueError", "RoverException", "ConnectionError", "SensorError",
     "SafetyError", "KeyboardInterrupt"}

base_class(type) ==
    CASE type \in {"ConnectionError", "SensorError", "SafetyError"} -> "RoverException"
      [] type \in {"RoverException", "ValueError"} -> "Exception"
      [] type \in {"Exception", "KeyboardInterrupt"} -> "BaseException"
      [] OTHER -> "object"

\* isinstance(e, class) for an exception e of the type
RECURSIVE isinstance(_, _)
isinstance(type, class) ==
    IF type = class THEN TRUE
    ELSE IF type = "object" THEN FALSE
    ELSE isinstance(base_class(type), class)

\* `except exceptions as e` with the tuple of the decorator
except_matches(type, exceptions) ==
    \E class \in exceptions : isinstance(type, class)

\* the `exceptions` arguments tried
ExceptionTuples ==
    {{"Exception"}, {"RoverException"}, {"ConnectionError"},
     {"ConnectionError", "SensorError"}}

\* the scripts are not running while the library is exercised
script_idle ==
    /\ prog = "gesture_interface"
    /\ current_gesture = "none"
    /\ motor = <<0, 0>>
    /\ loop_idle
    /\ subsystem_error = "unwatched"
    /\ config = RoverConfig
    /\ extract_idle

\* @retry_on_failure(max_attempts, delay, exceptions) on a function, and the
\* wrapper entered: the for loop is before its first pass
RetryInit ==
    /\ pc = "wrapper"
    /\ script_idle
    /\ recovery = "unused"
    /\ retry \in [max_attempts : 0..MaxAttempts,
                  delay : {0, 1},
                  exceptions : ExceptionTuples,
                  attempt : {0},
                  calls : {<<>>},
                  sleeps : {0},
                  status : {"running"},
                  result : {"none"}]

\* the last pass of the loop returns None in place of raising
wrapper_attempt_swallows_last ==
    /\ pc = "wrapper"
    /\ retry.status = "running"
    /\ retry.attempt < retry.max_attempts
    /\ \E outcome \in {"ok"} \cup ExceptionTypes :
         LET called == [retry EXCEPT !.calls = Append(@, outcome)]
         IN  retry' =
               IF outcome = "ok"
               THEN [called EXCEPT !.status = "returned", !.result = "value"]
               ELSE IF except_matches(outcome, retry.exceptions)
               THEN IF retry.attempt = retry.max_attempts - 1
                    THEN [called EXCEPT !.status = "returned", !.result = "None"]
                    ELSE [called EXCEPT !.attempt = @ + 1,
                                        !.sleeps = IF retry.delay > 0 THEN @ + 1 ELSE @]
               ELSE [called EXCEPT !.status = "raised", !.result = outcome]
    /\ UNCHANGED <<script_state, recovery>>

\* one pass of `for attempt in range(max_attempts)`: the call of func, and
\* the except clauses
wrapper_attempt ==
    /\ pc = "wrapper"
    /\ retry.status = "running"
    /\ retry.attempt < retry.max_attempts
    /\ \E outcome \in {"ok"} \cup ExceptionTypes :
         LET called == [retry EXCEPT !.calls = Append(@, outcome)]
         IN  retry' =
               IF outcome = "ok"
               THEN [called EXCEPT !.status = "returned", !.result = "value"]
               ELSE IF except_matches(outcome, retry.exceptions)
               THEN IF retry.attempt = retry.max_attempts - 1
                    THEN [called EXCEPT !.status = "raised", !.result = outcome]
                    ELSE [called EXCEPT !.attempt = @ + 1,
                                        !.sleeps = IF retry.delay > 0 THEN @ + 1 ELSE @]
               ELSE [called EXCEPT !.status = "raised", !.result = outcome]
    /\ UNCHANGED <<script_state, recovery>>

\* range(max_attempts) is used up without a return or a raise: the wrapper
\* falls off its end and returns None (max_attempts = 0)
wrapper_falls_through ==
    /\ pc = "wrapper"
    /\ retry.status = "running"
    /\ retry.attempt >= retry.max_attempts
    /\ retry' = [retry EXCEPT !.status = "returned", !.result = "None"]
    /\ UNCHANGED <<script_state, recovery>>

RetryNext ==
    \/ wrapper_attempt
    \/ wrapper_falls_through

RetrySpec == RetryInit /\ [][RetryNext]_vars

\* the types the decorator of this call lists, by the classes of the module
\* and of Python
Listed(type) ==
    \/ "Exception" \in retry.exceptions /\ type # "KeyboardInterrupt"
    \/ "RoverException" \in retry.exceptions
         /\ type \in {"RoverException", "ConnectionError", "SensorError", "SafetyError"}
    \/ type \in retry.exceptions

\* C29: a function wrapped by retry_on_failure(max_attempts = n), n >= 1, is
\* called at most n times; the first call that succeeds ends the calls and
\* its value is returned; another call follows only a call that raised one
\* of the listed types; an exception of any other type is re-raised at once,
\* and so is the listed exception of the n-th call.
RetryContract ==
    retry.max_attempts >= 1 =>
        LET n == retry.max_attempts
            made == Len(retry.calls)
        IN  /\ made <= n
            /\ \A i \in 1..(made - 1) : Listed(retry.calls[i])
            /\ retry.status = "running" =>
                   made < n /\ retry.result = "none"
            /\ retry.status = "returned" =>
                   made >= 1 /\ retry.calls[made] = "ok" /\ retry.result = "value"
            /\ retry.status = "raised" =>
                   /\ made >= 1
                   /\ retry.calls[made] \in ExceptionTypes
                   /\ retry.result = retry.calls[made]
                   /\ Listed(retry.calls[made]) => made = n
            /\ (made >= 1 /\ retry.calls[made] = "ok") => retry.status = "returned"
            /\ (made >= 1 /\ retry.calls[made] \in ExceptionTypes
                  /\ (~Listed(retry.calls[made]) \/ made = n)) =>
                   retry.status = "raised"

\* three attempts allowed, (ConnectionError, SensorError) listed: two listed
\* failures, each followed by another call, and the third call returns
RetryWitness ==
    /\ retry.max_attempts = 3
    /\ retry.exceptions = {"ConnectionError", "SensorError"}
    /\ retry.calls = <<"ConnectionError", "SensorError", "ok">>
    /\ retry.status = "returned"
    /\ retry.result = "value"

(***************************************************************************)
(* error_handling.py: ErrorRecoveryManager.handle_error, one call after     *)
(* the other on one manager.                                                *)
(***************************************************************************)
\* how often the errors handed to one manager change their kind within the
\* history it keeps
MaxKindChanges == 0

error_history_limit == 100

error_history_kept == 50

\* the exceptions of the module, as their constructors build them
RoverErrors ==
    {[type |-> "RoverException", error_code |-> "ROVER_ERROR", recoverable |-> TRUE],
     [type |-> "ConnectionError", error_code |-> "CONNECTION_ERROR", recoverable |-> TRUE],
     [type |-> "SensorError", error_code |-> "SENSOR_ERROR", recoverable |-> TRUE],
     [type |-> "SafetyError", error_code |-> "SAFETY_ERROR", recoverable |-> FALSE]}

\* ErrorRecoveryManager.__init__: self.recovery_strategies
recovery_strategies ==
    [error_code \in {"CONNECTION_ERROR", "SENSOR_ERROR", "SAFETY_ERROR"} |->
        CASE error_code = "CONNECTION_ERROR" -> "_recover_connection"
          [] error_code = "SENSOR_ERROR" -> "_recover_sensor"
          [] OTHER -> "_emergency_stop"]

\* what each strategy returns
strategy_returns(strategy) ==
    strategy = "_recover_sensor"

\* the error_record appended to error_history
error_record(error) ==
    [error_code |-> error.error_code, recoverable |-> error.recoverable]

\* the number of places where the history goes from one error code to another
RECURSIVE kind_changes(_)
kind_changes(history) ==
    IF Len(history) < 2 THEN 0
    ELSE kind_changes(Tail(history))
         + (IF history[1].error_code # history[2].error_code THEN 1 ELSE 0)

\* error_history after the append and the cut to the last 50 of more than 100
recorded(history, error) ==
    LET appended == Append(history, error_record(error))
    IN  IF Len(appended) > error_history_limit
        THEN SubSeq(appended, Len(appended) - error_history_kept + 1, Len(appended))
        ELSE appended

ErrorInit ==
    /\ pc = "handle_error"
    /\ script_idle
    /\ retry = "unused"
    /\ recovery = [error_history |-> <<>>, error |-> "none", returned |-> "none",
                   invoked |-> "none", truncated |-> FALSE]

\* handle_error that looks the strategy up whether the error is recoverable
\* or not
handle_error_any_strategy ==
    /\ pc = "handle_error"
    /\ \E error \in RoverErrors :
         LET history == recorded(recovery.error_history, error)
             has_strategy == error.error_code \in DOMAIN recovery_strategies
         IN  /\ kind_changes(history) <= MaxKindChanges
             /\ recovery' =
                  [error_history |-> history,
                   error |-> error.type,
                   returned |-> IF has_strategy
                                THEN strategy_returns(recovery_strategies[error.error_code])
                                ELSE FALSE,
                   invoked |-> IF has_strategy
                               THEN recovery_strategies[error.error_code]
                               ELSE "none",
                   truncated |-> Len(recovery.error_history) + 1 > error_history_limit]
    /\ UNCHANGED <<script_state, retry>>

\* ErrorRecoveryManager.handle_error(error, context)
handle_error ==
    /\ pc = "handle_error"
    /\ \E error \in RoverErrors :
         LET history == recorded(recovery.error_history, error)
             has_strategy == /\ error.recoverable
                             /\ error.error_code \in DOMAIN recovery_strategies
         IN  /\ kind_changes(history) <= MaxKindChanges
             /\ recovery' =
                  [error_history |-> history,
                   error |-> error.type,
                   returned |-> IF has_strategy
                                THEN strategy_returns(recovery_strategies[error.error_code])
                                ELSE FALSE,
                   invoked |-> IF has_strategy
                               THEN recovery_strategies[error.error_code]
                               ELSE "none",
                   truncated |-> Len(recovery.error_history) + 1 > error_history_limit]
    /\ UNCHANGED <<script_state, retry>>

ErrorNext ==
    \/ handle_error

ErrorSpec == ErrorInit /\ [][ErrorNext]_vars

====
